---------------------------- MODULE Spec2Model ----------------------------
(***************************************************************************)
(* A model of scipy/linalg/special_matrices.py: the dense-matrix           *)
(* construction routines tri, tril, triu, toeplitz, circulant, hankel,     *)
(* hadamard, kron and block_diag.                                          *)
(*                                                                         *)
(* A call is a small state machine: the state holds the function called    *)
(* (fn), its arguments (args), the position in its body (pc), its local    *)
(* variables (loc) and the value it returns (ret).  Init draws the         *)
(* arguments from bounded sets; one action per function (or per step of a  *)
(* function with a loop) applies the code.                                 *)
(*                                                                         *)
(* Arrays.  A 1-D array is a sequence (v[t+1] is element t); a 2-D array   *)
(* is a record [nr, nc, a] with a a function on (0..nr-1) \X (0..nc-1).    *)
(***************************************************************************)
EXTENDS Integers, Sequences, FiniteSets, TLC

VARIABLES fn, args, pc, loc, ret

vars == <<fn, args, pc, loc, ret>>

(***************************************************************************)
(* Bounds of the model.                                                    *)
(***************************************************************************)
\* largest number of rows / columns of a matrix argument, and of N, M in tri
MaxDim == 2
\* diagonal offsets k range over -MaxK..MaxK
MaxK == 2
\* largest length of the 1-D arguments c and r
MaxLen == 3
\* hadamard's n ranges over -MaxNeg..MaxN
MaxN == 16
MaxNeg == 3
\* largest number of blocks handed to block_diag
MaxBlocks == 2

\* element values of matrix arguments (tril, triu)
MVals == {0, 2}
\* element values of the vectors c and r
VVals == {1, 2, 3}
\* element values of kron's first argument
AVals == {1, 2}

None == [kind |-> "none"]
NoMatrix == [nr |-> 0, nc |-> 0, a |-> <<>>]
NoLocals == <<>>

Max(x, y) == IF x >= y THEN x ELSE y

(***************************************************************************)
(* numpy primitives used by the module.                                    *)
(***************************************************************************)
\* the index set of an array of shape (nr, nc)
Cells(nr, nc) == (0 .. nr - 1) \X (0 .. nc - 1)

\* np.arange(start, stop, step) for step # 0, as a sequence
arange(start, stop, step) ==
    LET n == IF step > 0
             THEN Max(0, (stop - start + step - 1) \div step)
             ELSE Max(0, (start - stop + (-step) - 1) \div (-step))
    IN  [t \in 1 .. n |-> start + (t - 1) * step]

\* np.concatenate of two 1-D arrays
concatenate1(u, v) == u \o v

\* a + b for the pair of open grids np.ogrid returns: a is a column, b a row
ogrid_sum(a, b) ==
    [nr |-> Len(a), nc |-> Len(b),
     a  |-> [p \in Cells(Len(a), Len(b)) |-> a[p[1] + 1] + b[p[2] + 1]]]

\* whether i is a valid index into the 1-D array v (numpy accepts -len..len-1)
ValidIndex(v, i) == i >= -Len(v) /\ i < Len(v)

\* v[i] with numpy's wrap-around of negative indices
item(v, i) == IF i >= 0 THEN v[i + 1] ELSE v[Len(v) + i + 1]

\* whether the gather v[indx] raises IndexError
GatherRaises(v, indx) ==
    \E p \in Cells(indx.nr, indx.nc) : ~ValidIndex(v, indx.a[p])

\* v[indx]: the array of indx's shape holding v at each index
gather(v, indx) ==
    [nr |-> indx.nr, nc |-> indx.nc,
     a  |-> [p \in Cells(indx.nr, indx.nc) |-> item(v, indx.a[p])]]

\* elementwise product of two arrays of the same shape
multiply(x, y) ==
    [nr |-> x.nr, nc |-> x.nc,
     a  |-> [p \in Cells(x.nr, x.nc) |-> x.a[p] * y.a[p]]]

\* 1 - x, elementwise
one_minus(x) ==
    [nr |-> x.nr, nc |-> x.nc, a |-> [p \in Cells(x.nr, x.nc) |-> 1 - x.a[p]]]

\* the 2-D arrays of shape (nr, nc) with elements in V
Matrices(nr, nc, V) ==
    {[nr |-> nr, nc |-> nc, a |-> f] : f \in [Cells(nr, nc) -> V]}

\* the 2-D arrays with at most d rows and d columns
MatricesUpTo(d, V) ==
    UNION {Matrices(nr, nc, V) : nr \in 0 .. d, nc \in 0 .. d}

\* the 1-D arrays of length at most n
VectorsUpTo(n, V) == UNION {[1 .. l -> V] : l \in 0 .. n}

(***************************************************************************)
(* tri, tril, triu                                                         *)
(***************************************************************************)
\* np.greater_equal(np.subtract.outer(np.arange(N), np.arange(M)), -k)
tri_mask_strict(N, M, k) ==
    LET rows == arange(0, N, 1)
        cols == arange(0, M, 1)
    IN  [nr |-> N, nc |-> M,
         a  |-> [p \in Cells(N, M) |-> (rows[p[1] + 1] - cols[p[2] + 1]) > -k]]

tri_mask(N, M, k) ==
    LET rows == arange(0, N, 1)
        cols == arange(0, M, 1)
    IN  [nr |-> N, nc |-> M,
         a  |-> [p \in Cells(N, M) |-> (rows[p[1] + 1] - cols[p[2] + 1]) >= -k]]

\* m.astype(dtype) of a boolean array: True becomes 1 and False 0
astype_bool(m) ==
    [nr |-> m.nr, nc |-> m.nc,
     a  |-> [p \in Cells(m.nr, m.nc) |-> IF m.a[p] THEN 1 ELSE 0]]

\* tri(N, M, k, dtype).  M is None, an integer [kind |-> "int", v |-> M] or a
\* string naming a dtype; dtype is None or [kind |-> "str", v |-> name].
tri(N, M, k, dtype) ==
    LET M1     == IF M.kind = "int" THEN M.v ELSE N
        dtype1 == IF M.kind = "str" THEN M ELSE dtype
        m      == tri_mask(N, M1, k)
    IN  IF dtype1.kind = "none" THEN m ELSE astype_bool(m)

IntArg(n) == [kind |-> "int", v |-> n]
StrArg(s) == [kind |-> "str", v |-> s]

\* tril(m, k); every array of the model has an integer dtype
tril(m, k) == multiply(tri(m.nr, IntArg(m.nc), k, StrArg("l")), m)

triu_same_k(m, k) ==
    multiply(one_minus(tri(m.nr, IntArg(m.nc), k, StrArg("l"))), m)

\* triu(m, k)
triu(m, k) ==
    multiply(one_minus(tri(m.nr, IntArg(m.nc), k - 1, StrArg("l"))), m)

TriArgs ==
    [N : 0 .. MaxDim,
     M : {None, StrArg("d")} \cup {IntArg(n) : n \in 0 .. MaxDim},
     k : -MaxK .. MaxK,
     dtype : {None, StrArg("l")}]

TrilArgs == [m : MatricesUpTo(MaxDim, MVals), k : -MaxK .. MaxK]

InitTri ==
    /\ fn \in {"tri", "tril", "triu"}
    /\ args \in IF fn = "tri" THEN TriArgs ELSE TrilArgs
    /\ pc = "call"
    /\ loc = NoLocals
    /\ ret = NoMatrix

Tri ==
    /\ fn = "tri" /\ pc = "call"
    /\ ret' = tri(args.N, args.M, args.k, args.dtype)
    /\ pc' = "done"
    /\ UNCHANGED <<fn, args, loc>>

Tril ==
    /\ fn = "tril" /\ pc = "call"
    /\ ret' = tril(args.m, args.k)
    /\ pc' = "done"
    /\ UNCHANGED <<fn, args, loc>>

Triu ==
    /\ fn = "triu" /\ pc = "call"
    /\ ret' = triu(args.m, args.k)
    /\ pc' = "done"
    /\ UNCHANGED <<fn, args, loc>>

NextTri == Tri \/ Tril \/ Triu

SpecTri == InitTri /\ [][NextTri]_vars


(***************************************************************************)
(* C1 (as amended).  tri(N, M, k) has shape exactly (N, M) (M = N when M   *)
(* is omitted or names a dtype) and its entry [i,j] is 1 (True when no     *)
(* dtype is asked for) if and only if j <= i + k, and 0 (False) otherwise. *)
(***************************************************************************)
TriM1 == IF args.M.kind = "int" THEN args.M.v ELSE args.N
TriTyped == args.dtype.kind # "none" \/ args.M.kind = "str"

Partitions(m, lo, up) ==
    /\ lo.nr = m.nr /\ lo.nc = m.nc /\ up.nr = m.nr /\ up.nc = m.nc
    /\ \A p \in Cells(m.nr, m.nc) :
          /\ lo.a[p] + up.a[p] = m.a[p]
          /\ IF p[2] <= p[1]
             THEN lo.a[p] = m.a[p] /\ up.a[p] = 0
             ELSE lo.a[p] = 0 /\ up.a[p] = m.a[p]

C9_TrilPlusTriu ==
    /\ (fn = "tril" /\ pc = "done" /\ args.k = 0) =>
           Partitions(args.m, ret, triu(args.m, 1))
    /\ (fn = "triu" /\ pc = "done" /\ args.k = 1) =>
           Partitions(args.m, tril(args.m, 0), ret)

\* tril([[2, 2], [2, 2]], 0) returned [[2, 0], [2, 2]]
C9_Witness ==
    /\ fn = "tril" /\ pc = "done" /\ args.k = 0
    /\ args.m.nr = 2 /\ args.m.nc = 2
    /\ \A p \in Cells(2, 2) : args.m.a[p] = 2
    /\ ret.a[<<0, 1>>] = 0 /\ ret.a[<<1, 1>>] = 2 /\ ret.a[<<1, 0>>] = 2

(***************************************************************************)
(* toeplitz, circulant, hankel                                             *)
(***************************************************************************)
ArrayArg(v) == [kind |-> "array", v |-> v]

\* the Python slices r[-1:0:-1] and r[1:] of a 1-D array
slice_rev_tail(r) == [t \in 1 .. Len(r) - 1 |-> r[Len(r) - t + 1]]
slice_tail(r) == SubSeq(r, 2, Len(r))

\* c.conjugate(); the elements of the model are real numbers
conjugate(c) == c
zeros_like(c) == [t \in 1 .. Len(c) |-> 0]

\* the outcome of a gather: an IndexError, or the array
Gathered(vals, indx) ==
    IF GatherRaises(vals, indx)
    THEN [raised |-> TRUE, value |-> NoMatrix]
    ELSE [raised |-> FALSE, value |-> gather(vals, indx)]

toeplitz_r(c, r) == IF r.kind = "none" THEN conjugate(c) ELSE r.v

toeplitz_vals_whole_r(c, r) == concatenate1([t \in 1 .. Len(r) |-> r[Len(r) - t + 1]], c)

toeplitz_vals(c, r) == concatenate1(slice_rev_tail(r), c)

toeplitz_indx(c, r) ==
    ogrid_sum(arange(0, Len(c), 1), arange(Len(r) - 1, -1, -1))

circulant_indx_plus(c) ==
    ogrid_sum(arange(0, Len(c), 1), arange(0, Len(c), 1))

circulant_indx(c) ==
    ogrid_sum(arange(0, Len(c), 1), arange(0, -Len(c), -1))

hankel_r_conjugate(c, r) == IF r.kind = "none" THEN conjugate(c) ELSE r.v

hankel_r(c, r) == IF r.kind = "none" THEN zeros_like(c) ELSE r.v

hankel_vals_whole_r(c, r) == concatenate1(c, r)

hankel_vals(c, r) == concatenate1(c, slice_tail(r))

hankel_indx(c, r) == ogrid_sum(arange(0, Len(c), 1), arange(0, Len(r), 1))

VecArgs == VectorsUpTo(MaxLen, VVals)

InitStruct ==
    /\ fn \in {"toeplitz", "circulant", "hankel"}
    /\ args \in IF fn = "circulant"
                THEN [c : VecArgs]
                ELSE [c : VecArgs, r : {None} \cup {ArrayArg(v) : v \in VecArgs}]
    /\ pc = "call"
    /\ loc = NoLocals
    /\ ret = NoMatrix

\* the gather that ends toeplitz, circulant and hankel: vals[indx]
ReturnGather(vals, indx) ==
    LET g == Gathered(vals, indx)
    IN  /\ loc' = [vals |-> vals, indx |-> indx]
        /\ pc' = IF g.raised THEN "raised" ELSE "done"
        /\ ret' = g.value
        /\ UNCHANGED <<fn, args>>

Toeplitz ==
    /\ fn = "toeplitz" /\ pc = "call"
    /\ LET r == toeplitz_r(args.c, args.r)
       IN  ReturnGather(toeplitz_vals(args.c, r), toeplitz_indx(args.c, r))

Circulant ==
    /\ fn = "circulant" /\ pc = "call"
    /\ ReturnGather(args.c, circulant_indx(args.c))

Hankel ==
    /\ fn = "hankel" /\ pc = "call"
    /\ LET r == hankel_r(args.c, args.r)
       IN  ReturnGather(hankel_vals(args.c, r), hankel_indx(args.c, r))

NextStruct == Toeplitz \/ Circulant \/ Hankel

SpecStruct == InitStruct /\ [][NextStruct]_vars

\* a call of fn has ended, by a return or by an exception
Ended(f) == fn = f /\ pc # "call"
\* element t (from 0) of a 1-D array
El(v, t) == v[t + 1]

(***************************************************************************)
(* C3.  For non-empty c and r, toeplitz(c, r) returns an array of shape    *)
(* (len(c), len(r)) whose entry [i,j] is vals[(len(r)-1) - j + i] with     *)
(* vals = reverse(r[1:]) ++ c, that is c[i-j] when i >= j and r[j-i] when  *)
(* j > i; so r[0] is not read, [0,0] is c[0], the first row is             *)
(* [c[0], r[1:]] and entries with equal i-j are equal.                     *)
(***************************************************************************)
C3_ToeplitzEntries ==
    (Ended("toeplitz") /\ args.r.kind = "array"
        /\ Len(args.c) >= 1 /\ Len(args.r.v) >= 1) =>
        LET c  == args.c
            r  == args.r.v
            rv == [t \in 1 .. Len(r) - 1 |-> r[Len(r) - t + 1]] \o c
        IN  /\ pc = "done"
            /\ ret.nr = Len(c) /\ ret.nc = Len(r)
            /\ DOMAIN ret.a = Cells(Len(c), Len(r))
            /\ \A i \in 0 .. Len(c) - 1, j \in 0 .. Len(r) - 1 :
                  /\ ret.a[<<i, j>>] = El(rv, (Len(r) - 1) - j + i)
                  /\ ret.a[<<i, j>>] = IF i >= j THEN El(c, i - j) ELSE El(r, j - i)
            /\ ret.a[<<0, 0>>] = El(c, 0)
            /\ \A j \in 1 .. Len(r) - 1 : ret.a[<<0, j>>] = El(r, j)
            /\ \A p, q \in Cells(Len(c), Len(r)) :
                  p[1] - p[2] = q[1] - q[2] => ret.a[p] = ret.a[q]

\* toeplitz([1, 2, 3], [3, 2, 1]) returned a matrix with c[0] = 1 at [0,0]
\* (r[0] = 3 ignored), r[1] at [0,1] and c[2] at [2,0]
C3_Witness ==
    /\ fn = "toeplitz" /\ pc = "done" /\ args.r.kind = "array"
    /\ args.c = <<1, 2, 3>> /\ args.r.v = <<3, 2, 1>>
    /\ ret.a[<<0, 0>>] = 1 /\ ret.a[<<0, 1>>] = 2 /\ ret.a[<<0, 2>>] = 1
    /\ ret.a[<<2, 0>>] = 3 /\ ret.a[<<1, 2>>] = 2

(***************************************************************************)
(* C4.  For c of length n >= 1, circulant(c) is n x n with                 *)
(* circulant(c)[i,j] = c[(i-j) mod n] (column 0 is c), although the index  *)
(* the code gathers with is the raw i-j, negative above the diagonal.      *)
(***************************************************************************)
C4_CirculantEntries ==
    (Ended("circulant") /\ Len(args.c) >= 1) =>
        LET c == args.c
            n == Len(args.c)
        IN  /\ pc = "done"
            /\ ret.nr = n /\ ret.nc = n
            /\ DOMAIN ret.a = Cells(n, n)
            /\ \A i, j \in 0 .. n - 1 :
                  /\ loc.indx.a[<<i, j>>] = i - j
                  /\ loc.indx.a[<<i, j>>] \in -(n - 1) .. (n - 1)
                  /\ ret.a[<<i, j>>] = El(c, (i - j) % n)
            /\ \A i \in 0 .. n - 1 : ret.a[<<i, 0>>] = El(c, i)

\* circulant([1, 2, 3]) returned c[2] at [0,1], read through the index -1
C4_Witness ==
    /\ fn = "circulant" /\ pc = "done"
    /\ args.c = <<1, 2, 3>>
    /\ loc.indx.a[<<0, 1>>] = -1 /\ ret.a[<<0, 1>>] = 3 /\ ret.a[<<0, 2>>] = 2

RECURSIVE floor_log2(_)
\* int(math.log(n, 2)) for n >= 1.  The quotient of the two double
\* logarithms truncates to the exact floor of log2(n) for every n the
\* model reaches (n <= MaxN), which floor_log2 computes.
floor_log2(n) == IF n < 2 THEN 0 ELSE 1 + floor_log2(n \div 2)

\* lg2, as lines 308-311 set it
hadamard_lg2(n) == IF n < 1 THEN 0 ELSE floor_log2(n)

hadamard_invalid_positive_only(n) == n >= 1 /\ 2 ^ hadamard_lg2(n) # n

\* the test of line 312
hadamard_invalid(n) == 2 ^ hadamard_lg2(n) # n

\* np.hstack((x, y)) and np.vstack((x, y)) of 2-D arrays, and -x
hstack(x, y) ==
    [nr |-> x.nr, nc |-> x.nc + y.nc,
     a  |-> [p \in Cells(x.nr, x.nc + y.nc) |->
                IF p[2] < x.nc THEN x.a[p] ELSE y.a[<<p[1], p[2] - x.nc>>]]]

vstack(x, y) ==
    [nr |-> x.nr + y.nr, nc |-> x.nc,
     a  |-> [p \in Cells(x.nr + y.nr, x.nc) |->
                IF p[1] < x.nr THEN x.a[p] ELSE y.a[<<p[1] - x.nr, p[2]>>]]]

negative(x) ==
    [nr |-> x.nr, nc |-> x.nc, a |-> [p \in Cells(x.nr, x.nc) |-> -x.a[p]]]

sylvester_step_unsigned(H) == vstack(hstack(H, H), hstack(H, H))

\* one pass of the loop of lines 318-319
sylvester_step(H) == vstack(hstack(H, H), hstack(H, negative(H)))

\* np.array([[1]], dtype=dtype)
array_1x1(dtype) == [nr |-> 1, nc |-> 1, a |-> [p \in Cells(1, 1) |-> 1]]

InitHadamard ==
    /\ fn = "hadamard"
    /\ args \in [n : -MaxNeg .. MaxN, dtype : {"int", "float", "complex"}]
    /\ pc = "call"
    /\ loc = NoLocals
    /\ ret = NoMatrix

\* lines 308-315: the validation, then the 1 x 1 seed
HadamardCheck ==
    /\ fn = "hadamard" /\ pc = "call"
    /\ IF hadamard_invalid(args.n)
       THEN pc' = "raised" /\ UNCHANGED loc
       ELSE /\ pc' = "loop"
            /\ loc' = [lg2 |-> hadamard_lg2(args.n), i |-> 0,
                       H |-> array_1x1(args.dtype)]
    /\ UNCHANGED <<fn, args, ret>>

\* lines 318-319: one doubling
HadamardStep ==
    /\ fn = "hadamard" /\ pc = "loop"
    /\ loc.i < loc.lg2
    /\ loc' = [loc EXCEPT !.H = sylvester_step(loc.H), !.i = loc.i + 1]
    /\ UNCHANGED <<fn, args, pc, ret>>

\* line 321
HadamardReturn ==
    /\ fn = "hadamard" /\ pc = "loop"
    /\ loc.i >= loc.lg2
    /\ ret' = loc.H
    /\ pc' = "done"
    /\ UNCHANGED <<fn, args, loc>>

NextHadamard == HadamardCheck \/ HadamardStep \/ HadamardReturn

SpecHadamard == InitHadamard /\ [][NextHadamard]_vars

\* n is 2^k for some k >= 0
IsPowerOfTwo(n) == \E k \in 0 .. MaxN : 2 ^ k = n

(***************************************************************************)
(* C5.  hadamard(n) raises its validation error if and only if n is not a  *)
(* positive power of two; the error comes before any matrix is built and   *)
(* nothing is returned; when n = 2^k the call goes on to its return.       *)
(***************************************************************************)
C5_HadamardValidation ==
    Ended("hadamard") =>
        /\ pc = "raised" <=> ~IsPowerOfTwo(args.n)
        /\ pc = "raised" => loc = NoLocals /\ ret = NoMatrix
        /\ pc = "loop" => ENABLED (HadamardStep \/ HadamardReturn)
        /\ pc \in {"raised", "loop", "done"}

\* hadamard(0) raised, with no matrix built
C5_Witness ==
    /\ fn = "hadamard" /\ pc = "raised" /\ args.n = 0
    /\ loc = NoLocals /\ ret = NoMatrix

(***************************************************************************)
(* C6.  For n = 2^k, hadamard(n) starts from [[1]] and doubles k times:    *)
(* after t doublings H is 2^t x 2^t, with entries +1 and -1, of the block  *)
(* form [[B, B], [B, -B]] when t >= 1, and H * transpose(H) = 2^t * I; the *)
(* returned matrix is n x n with hadamard(n) * transpose(hadamard(n)) =    *)
(* n * I, and hadamard(4) is the matrix of the docstring.                  *)
(***************************************************************************)
RECURSIVE RowDot(_, _, _, _)
\* the sum over l < n of H[i,l] * H[j,l]
RowDot(H, i, j, n) ==
    IF n = 0 THEN 0
    ELSE H.a[<<i, n - 1>>] * H.a[<<j, n - 1>>] + RowDot(H, i, j, n - 1)

\* H is m x m with entries +1, -1 and H * transpose(H) = m * I
IsHadamard(H, m) ==
    /\ H.nr = m /\ H.nc = m
    /\ DOMAIN H.a = Cells(m, m)
    /\ \A p \in Cells(m, m) : H.a[p] \in {1, -1}
    /\ \A i, j \in 0 .. m - 1 : RowDot(H, i, j, m) = (IF i = j THEN m ELSE 0)

\* H = [[B, B], [B, -B]] for its top left quarter B
IsDoubled(H) ==
    LET h == H.nr \div 2
    IN  \A i, j \in 0 .. h - 1 :
           /\ H.a[<<i, j + h>>] = H.a[<<i, j>>]
           /\ H.a[<<i + h, j>>] = H.a[<<i, j>>]
           /\ H.a[<<i + h, j + h>>] = -H.a[<<i, j>>]

Hadamard4 ==
    <<<<1, 1, 1, 1>>, <<1, -1, 1, -1>>, <<1, 1, -1, -1>>, <<1, -1, -1, 1>>>>

C6_HadamardDoubling ==
    (fn = "hadamard" /\ pc \in {"loop", "done"}) =>
        /\ loc.i \in 0 .. loc.lg2
        /\ 2 ^ loc.lg2 = args.n
        /\ IsHadamard(loc.H, 2 ^ loc.i)
        /\ loc.H.a[<<0, 0>>] = 1
        /\ loc.i >= 1 => IsDoubled(loc.H)
        /\ pc = "done" =>
              /\ loc.i = loc.lg2
              /\ ret = loc.H
              /\ IsHadamard(ret, args.n)
              /\ args.n = 4 =>
                    \A p \in Cells(4, 4) : ret.a[p] = Hadamard4[p[1] + 1][p[2] + 1]

\* hadamard(16) returned after four doublings
C6_Witness ==
    /\ fn = "hadamard" /\ pc = "done" /\ args.n = 16
    /\ loc.i = 4 /\ ret.nr = 16 /\ ret.a[<<15, 15>>] = 1 /\ ret.a[<<1, 1>>] = -1

(***************************************************************************)
(* kron                                                                    *)
(*                                                                         *)
(* The intermediate arrays of kron have up to four dimensions: an n-d      *)
(* array is a record [shape, data], data being its elements in row-major   *)
(* (C) order.                                                              *)
(***************************************************************************)
RECURSIVE Prod(_)
\* the product of the elements of a tuple
Prod(s) == IF Len(s) = 0 THEN 1 ELSE Head(s) * Prod(Tail(s))

\* the elements of a 2-D array in row-major order: a.ravel()
ravel(m) == [t \in 1 .. m.nr * m.nc |-> m.a[<<(t - 1) \div m.nc, (t - 1) % m.nc>>]]

\* np.outer(a, b): ravels both and multiplies every pair
outer(a, b) ==
    LET u == ravel(a)
        v == ravel(b)
    IN  [shape |-> <<Len(u), Len(v)>>,
         data  |-> [t \in 1 .. Len(u) * Len(v) |->
                       u[((t - 1) \div Len(v)) + 1] * v[((t - 1) % Len(v)) + 1]]]

\* x.reshape(shape) of a C-contiguous array: the same elements in order
reshape(x, shape) == [shape |-> shape, data |-> x.data]

\* np.reshape(a, a.shape), which kron applies to a non-contiguous argument
normalize(a) == a

\* the sub-arrays x[0], x[1], ... that iterating over x yields
subarrays(x) ==
    LET sz == Prod(Tail(x.shape))
    IN  [I \in 1 .. Head(x.shape) |->
            [shape |-> Tail(x.shape),
             data  |-> SubSeq(x.data, (I - 1) * sz + 1, I * sz)]]

\* np.concatenate(xs, axis=1) of arrays of one common shape (d0, d1, ...);
\* it raises ValueError when xs is empty
concatenate_axis1(xs) ==
    IF Len(xs) = 0
    THEN [raised |-> TRUE, value |-> [shape |-> <<>>, data |-> <<>>]]
    ELSE LET sh  == xs[1].shape
             d0  == sh[1]
             row == Prod(Tail(sh))
             K   == Len(xs)
         IN  [raised |-> FALSE,
              value  |->
                 [shape |-> <<d0, K * sh[2]>> \o Tail(Tail(sh)),
                  data  |-> [t \in 1 .. d0 * K * row |->
                               LET i0    == (t - 1) \div (K * row)
                                   rem   == (t - 1) % (K * row)
                                   which == rem \div row
                                   off   == rem % row
                               IN  xs[which + 1].data[i0 * row + off + 1]]]]

\* a 2-D [shape, data] array as a matrix record
as_matrix(x) ==
    [nr |-> x.shape[1], nc |-> x.shape[2],
     a  |-> [p \in Cells(x.shape[1], x.shape[2]) |->
                x.data[p[1] * x.shape[2] + p[2] + 1]]]

\* kron(a, b), lines 354-360: the array returned, or the exception
kron(a, b) ==
    LET a1 == IF ~a.contiguous THEN normalize(a.m) ELSE a.m
        b1 == IF ~b.contiguous THEN normalize(b.m) ELSE b.m
        o  == outer(a1, b1)
        o4 == reshape(o, <<a1.nr, a1.nc, b1.nr, b1.nc>>)
        c1 == concatenate_axis1(subarrays(o4))
        c2 == IF c1.raised THEN c1 ELSE concatenate_axis1(subarrays(c1.value))
    IN  IF c2.raised
        THEN [raised |-> TRUE, value |-> NoMatrix]
        ELSE [raised |-> FALSE, value |-> as_matrix(c2.value)]

\* the P x Q matrix with the distinct elements 3, 4, 5, ... in row-major order
CountingMatrix(P, Q) ==
    [nr |-> P, nc |-> Q, a |-> [p \in Cells(P, Q) |-> 3 + p[1] * Q + p[2]]]

InitKron ==
    /\ fn = "kron"
    /\ args \in [a : [m : MatricesUpTo(MaxDim, AVals), contiguous : BOOLEAN],
                 b : [m : {CountingMatrix(P, Q) : P \in 0 .. MaxDim, Q \in 0 .. MaxDim},
                      contiguous : BOOLEAN]]
    /\ pc = "call"
    /\ loc = NoLocals
    /\ ret = NoMatrix

Kron ==
    /\ fn = "kron" /\ pc = "call"
    /\ LET res == kron(args.a, args.b)
       IN  /\ pc' = IF res.raised THEN "raised" ELSE "done"
           /\ ret' = res.value
    /\ UNCHANGED <<fn, args, loc>>

NextKron == Kron

SpecKron == InitKron /\ [][NextKron]_vars

\* what the claim says of the array kron(a, b) returns
KronBlocks(a, b, res) ==
    /\ res.nr = a.nr * b.nr /\ res.nc = a.nc * b.nc
    /\ \A I \in 0 .. a.nr - 1, J \in 0 .. a.nc - 1 :
          \A p \in 0 .. b.nr - 1, q \in 0 .. b.nc - 1 :
             res.a[<<I * b.nr + p, J * b.nc + q>>] = a.a[<<I, J>>] * b.a[<<p, q>>]

(***************************************************************************)
(* C7.  For all 2-D a of shape (M, N) and b of shape (P, Q), kron(a, b)    *)
(* returns an array of shape (M*P, N*Q) whose entry [I*P + p, J*Q + q] is  *)
(* a[I,J] * b[p,q].                                                        *)
(***************************************************************************)
C7_KronBlocks ==
    Ended("kron") => pc = "done" /\ KronBlocks(args.a.m, args.b.m, ret)

\* The part of C7 the code keeps: when a has at least one row and one
\* column, kron(a, b) returns and the result has the shape and blocks of C7.
C7_KronBlocksOfNonEmpty ==
    (Ended("kron") /\ args.a.m.nr >= 1 /\ args.a.m.nc >= 1) =>
        pc = "done" /\ KronBlocks(args.a.m, args.b.m, ret)

\* the calls of kron that raise are exactly those with an empty a
C7_KronRaisesOnEmpty ==
    Ended("kron") => (pc = "raised" <=> (args.a.m.nr = 0 \/ args.a.m.nc = 0))

(***************************************************************************)
(* block_diag                                                              *)
(*                                                                         *)
(* A block is an n-d array [shape, data, dtype] with dtype "int" or        *)
(* "float".  Its elements are fixed-point numbers counted in halves: the   *)
(* integer x stands for x/2, so that an "int" array holds even numbers     *)
(* only and a "float" array can hold 1.5 (as 3) or -2.5 (as -5).           *)
(***************************************************************************)
\* the conversion of one element on assignment into an array of dtype `to`:
\* a float stored into an integer array is truncated toward zero
cast(x, from, to) ==
    IF from = "float" /\ to = "int"
    THEN IF x >= 0 THEN (x \div 2) * 2 ELSE -(((-x) \div 2) * 2)
    ELSE x

\* np.atleast_2d(a)
atleast_2d(a) ==
    [a EXCEPT !.shape = IF Len(a.shape) = 0 THEN <<1, 1>>
                        ELSE IF Len(a.shape) = 1 THEN <<1>> \o a.shape
                        ELSE a.shape]

\* np.asarray([]): an empty 1-D array of floats
empty_list == [shape |-> <<0>>, data |-> <<>>, dtype |-> "float"]

RECURSIVE sum_axis0(_, _)
\* np.sum(shapes, axis=0)[d - 1] over the first n shapes
sum_axis0(shapes, d) ==
    IF Len(shapes) = 0 THEN 0
    ELSE Head(shapes)[d] + sum_axis0(Tail(shapes), d)

\* np.zeros((nr, nc), dtype)
zeros(nr, nc, dtype) ==
    [nr |-> nr, nc |-> nc, dtype |-> dtype, a |-> [p \in Cells(nr, nc) |-> 0]]

\* whether out[r:r+rr, c:c+cc] = blk raises: the slices are clipped to
\* out's shape and blk must broadcast to what is left
setitem_raises(out, r, c, blk) ==
    LET rr == blk.shape[1]
        cc == blk.shape[2]
        hr == Max(0, (IF r + rr < out.nr THEN r + rr ELSE out.nr) - r)
        hc == Max(0, (IF c + cc < out.nc THEN c + cc ELSE out.nc) - c)
    IN  ~((rr = hr \/ rr = 1) /\ (cc = hc \/ cc = 1))

\* out after out[r:r+rr, c:c+cc] = blk
setitem(out, r, c, blk) ==
    LET rr == blk.shape[1]
        cc == blk.shape[2]
    IN  [out EXCEPT !.a =
            [p \in Cells(out.nr, out.nc) |->
                IF /\ p[1] >= r /\ p[1] < r + rr
                   /\ p[2] >= c /\ p[2] < c + cc
                THEN cast(blk.data[(p[1] - r) * cc + (p[2] - c) + 1],
                          blk.dtype, out.dtype)
                ELSE out.a[p]]]

offsets_rows_only(r, c, rr, cc) == <<r + rr, c>>

\* r += rr; c += cc
offsets(r, c, rr, cc) == <<r + rr, c + cc>>

\* the positions (from 0) of the arguments of more than two dimensions
bad_args(arrs) == {k \in 0 .. Len(arrs) - 1 : Len(arrs[k + 1].shape) > 2}

\* the block of a shape and dtype: its elements are 1, 2, 3, ... for "int"
\* and 1.5, -2.5, 3.5, ... for "float", in row-major order
Block(shape, dtype) ==
    [shape |-> shape, dtype |-> dtype,
     data  |-> [t \in 1 .. Prod(shape) |->
                  IF dtype = "int" THEN 2 * t
                  ELSE IF t % 2 = 1 THEN 2 * t + 1 ELSE -(2 * t + 1)]]

\* the shapes of the blocks: a scalar, 1-D, 2-D and one of three dimensions
BlockShapes == {<<>>, <<0>>, <<3>>, <<2, 1>>, <<1, 2>>, <<2, 2>>, <<1, 1, 1>>}

Blocks == {Block(sh, d) : sh \in BlockShapes, d \in {"int", "float"}}

InitBlockDiag ==
    /\ fn = "block_diag"
    /\ args \in [arrs : UNION {[1 .. n -> Blocks] : n \in 0 .. MaxBlocks}]
    /\ pc = "call"
    /\ loc = NoLocals
    /\ ret = NoMatrix

\* lines 412-424: normalise the arguments, validate them, allocate out
BlockDiagStart ==
    /\ fn = "block_diag" /\ pc = "call"
    /\ LET arrs0  == IF args.arrs = <<>> THEN <<empty_list>> ELSE args.arrs
           arrs   == [k \in 1 .. Len(arrs0) |-> atleast_2d(arrs0[k])]
           shapes == [k \in 1 .. Len(arrs) |-> arrs[k].shape]
       IN  IF bad_args(arrs) # {}
           THEN /\ pc' = "raised"
                /\ loc' = [bad_args |-> bad_args(arrs)]
           ELSE /\ pc' = "loop"
                /\ loc' = [arrs |-> arrs, shapes |-> shapes,
                           out |-> zeros(sum_axis0(shapes, 1), sum_axis0(shapes, 2),
                                         arrs[1].dtype),
                           r |-> 0, c |-> 0, i |-> 0]
    /\ UNCHANGED <<fn, args, ret>>

\* lines 425-428: one block placed
BlockDiagPlace ==
    /\ fn = "block_diag" /\ pc = "loop"
    /\ loc.i < Len(loc.shapes)
    /\ LET rr  == loc.shapes[loc.i + 1][1]
           cc  == loc.shapes[loc.i + 1][2]
           blk == loc.arrs[loc.i + 1]
           off == offsets(loc.r, loc.c, rr, cc)
       IN  IF setitem_raises(loc.out, loc.r, loc.c, blk)
           THEN pc' = "raised" /\ UNCHANGED loc
           ELSE /\ loc' = [loc EXCEPT !.out = setitem(loc.out, loc.r, loc.c, blk),
                                      !.r = off[1], !.c = off[2], !.i = loc.i + 1]
                /\ UNCHANGED pc
    /\ UNCHANGED <<fn, args, ret>>

\* line 429
BlockDiagReturn ==
    /\ fn = "block_diag" /\ pc = "loop"
    /\ loc.i >= Len(loc.shapes)
    /\ ret' = loc.out
    /\ pc' = "done"
    /\ UNCHANGED <<fn, args, loc>>

NextBlockDiag == BlockDiagStart \/ BlockDiagPlace \/ BlockDiagReturn

SpecBlockDiag == InitBlockDiag /\ [][NextBlockDiag]_vars

\* the rows and columns block b takes: a scalar is 1 x 1, a 1-D array 1 x n
BlockRows(b) == IF Len(b.shape) = 2 THEN b.shape[1] ELSE 1
BlockCols(b) ==
    IF Len(b.shape) = 2 THEN b.shape[2]
    ELSE IF Len(b.shape) = 1 THEN b.shape[1] ELSE 1

RECURSIVE RowsBefore(_, _)
\* R_t: the rows of the blocks before block t (t from 1)
RowsBefore(bs, t) ==
    IF t <= 1 THEN 0 ELSE BlockRows(bs[t - 1]) + RowsBefore(bs, t - 1)

RECURSIVE ColsBefore(_, _)
\* C_t: the columns of the blocks before block t
ColsBefore(bs, t) ==
    IF t <= 1 THEN 0 ELSE BlockCols(bs[t - 1]) + ColsBefore(bs, t - 1)

\* cell p lies in the place of block t
InBlock(bs, t, p) ==
    /\ p[1] >= RowsBefore(bs, t) /\ p[1] < RowsBefore(bs, t + 1)
    /\ p[2] >= ColsBefore(bs, t) /\ p[2] < ColsBefore(bs, t + 1)

\* the shape of the result, the places of the blocks and the zeros around them
BlockLayout(bs, res) ==
    LET n == Len(bs)
    IN  /\ res.nr = RowsBefore(bs, n + 1) /\ res.nc = ColsBefore(bs, n + 1)
        /\ DOMAIN res.a = Cells(res.nr, res.nc)
        /\ \A t, u \in 1 .. n :
              t < u => \A p \in Cells(res.nr, res.nc) :
                          ~(InBlock(bs, t, p) /\ InBlock(bs, u, p))
        /\ \A p \in Cells(res.nr, res.nc) :
              (\A t \in 1 .. n : ~InBlock(bs, t, p)) => res.a[p] = 0

\* element [i,j] of block b
BlockEl(b, i, j) == b.data[i * BlockCols(b) + j + 1]

\* x as an array of dtype `to` holds it
Stored(x, from, to) ==
    IF from = "float" /\ to = "int"
    THEN CHOOSE y \in -x .. x \cup x .. -x :
            /\ y % 2 = 0
            /\ (x >= 0 => y <= x /\ x - y < 2)
            /\ (x < 0 => y >= x /\ y - x < 2)
    ELSE x

(***************************************************************************)
(* C8 (as amended).  For one or more blocks of at most two dimensions,     *)
(* block_diag returns an array of shape (sum of block rows, sum of block   *)
(* cols) and of the dtype of the first block, in which block t occupies    *)
(* exactly rows [R_t, R_t + rows_t) and columns [C_t, C_t + cols_t), its   *)
(* values converted to the dtype of the first block (unchanged when the    *)
(* dtypes agree or an integer goes into a float array; a float put into an *)
(* integer array is truncated toward zero); placed blocks never overlap    *)
(* and every entry outside all placed blocks is zero.                      *)
(***************************************************************************)
C8_BlockDiagLayout ==
    /\ (fn = "block_diag" /\ pc = "raised") =>
           \E t \in 1 .. Len(args.arrs) : Len(args.arrs[t].shape) > 2
    /\ (fn = "block_diag" /\ pc = "done" /\ Len(args.arrs) >= 1) =>
        LET bs == args.arrs
        IN  /\ BlockLayout(bs, ret)
            /\ ret.dtype = bs[1].dtype
            /\ \A t \in 1 .. Len(bs) :
                  \A i \in 0 .. BlockRows(bs[t]) - 1, j \in 0 .. BlockCols(bs[t]) - 1 :
                     ret.a[<<RowsBefore(bs, t) + i, ColsBefore(bs, t) + j>>]
                        = Stored(BlockEl(bs[t], i, j), bs[t].dtype, bs[1].dtype)

\* C8 as the claim states it: every block is in its place with its values
\* unchanged.
C8_BlockDiagValuesUnchanged ==
    (fn = "block_diag" /\ pc = "done" /\ Len(args.arrs) >= 1) =>
        LET bs == args.arrs
        IN  /\ BlockLayout(bs, ret)
            /\ \A t \in 1 .. Len(bs) :
                  \A i \in 0 .. BlockRows(bs[t]) - 1, j \in 0 .. BlockCols(bs[t]) - 1 :
                     ret.a[<<RowsBefore(bs, t) + i, ColsBefore(bs, t) + j>>]
                        = BlockEl(bs[t], i, j)

\* block_diag([[1], [2]], [1.5, -2.5, 3.5]) returned the 3 x 4 integer array
\* [[1, 0, 0, 0], [2, 0, 0, 0], [0, 1, -2, 3]]
C8_Witness ==
    /\ fn = "block_diag" /\ pc = "done"
    /\ args.arrs = <<Block(<<2, 1>>, "int"), Block(<<3>>, "float")>>
    /\ ret.nr = 3 /\ ret.nc = 4
    /\ ret.a[<<0, 0>>] = 2 /\ ret.a[<<1, 0>>] = 4 /\ ret.a[<<0, 1>>] = 0
    /\ ret.a[<<2, 0>>] = 0
    /\ ret.a[<<2, 1>>] = 2 /\ ret.a[<<2, 2>>] = -4 /\ ret.a[<<2, 3>>] = 6

=============================================================================
